---------------------------- MODULE Spec2Model ----------------------------
(***************************************************************************)
(* A model of the dice probability calculator: the Dice value and its      *)
(* parser (js/calculate.js), the series summation helper                   *)
(* (simulateSumToInfinity), and the DiceCalculator probability engine      *)
(* with its two process-wide caches.                                       *)
(*                                                                         *)
(* JavaScript numbers are modelled by exact rationals.  Every number the   *)
(* engine computes is an integer combination of products of 1/sides^n, so  *)
(* it is held as sg * n / Limb^e, where Limb is a power of a common        *)
(* multiple of the sides the model uses and n is an arbitrary-precision    *)
(* natural (TLC's integers have 32 bits; the variance sums need more).     *)
(* The code rounds every operation to a double; the model does not round.  *)
(* The two can differ only where the code compares values closer than the  *)
(* rounding error: the sums' threshold tests and the tolerances below are  *)
(* orders of magnitude wider, and the medians of the dice modelled here    *)
(* are the same in both.                                                   *)
(***************************************************************************)
EXTENDS Integers, Sequences, FiniteSets, Bags, TLC

---------------------------------------------------------------------------
(* Arbitrary-precision naturals: little-endian sequences of limbs in       *)
(* 0 .. Limb-1, without leading zero limbs; <<>> is zero.  The operations  *)
(* are written with function constructors and quantifiers, which TLC       *)
(* evaluates without nesting one limb's evaluation in another's.           *)

\* a common multiple of every sides value the engine is run with
NumBase == 2 * 2 * 3

Limb == NumBase * NumBase * NumBase

Max(S) == CHOOSE i \in S : \A j \in S : j <= i
Min(S) == CHOOSE i \in S : \A j \in S : i <= j

\* the sum of the values of f, natural numbers: a bag's cardinality is the
\* sum of its counts, which are positive
Sum(f) == BagCardinality([i \in DOMAIN f |-> f[i] + 1]) - Cardinality(DOMAIN f)

LimbAt(a, i) == IF i \in DOMAIN a THEN a[i] ELSE 0

BigStrip(a) ==
    LET nonzero == {i \in DOMAIN a : a[i] # 0}
    IN  IF nonzero = {} THEN <<>> ELSE SubSeq(a, 1, Max(nonzero))

\* a natural n below Limb^3, which every integer of TLC is
BigOfNat(n) ==
    BigStrip(<<n % Limb, (n \div Limb) % Limb, n \div (Limb * Limb)>>)

\* the limbs of t, each in 0 .. 2 * Limb - 2, with the carries taken over:
\* limb i gets a carry iff a limb below it is Limb or more and every limb
\* between the two is Limb - 1
BigResolve(t) ==
    LET carry(i) ==
            IF \E j \in 1..(i - 1) :
                 /\ t[j] >= Limb
                 /\ \A l \in (j + 1)..(i - 1) : t[l] = Limb - 1
            THEN 1 ELSE 0
    IN  BigStrip([i \in 1..(Len(t) + 1) |-> (LimbAt(t, i) + carry(i)) % Limb])

BigAdd(a, b) ==
    LET n == IF Len(a) > Len(b) THEN Len(a) ELSE Len(b)
    IN  BigResolve([i \in 1..n |-> LimbAt(a, i) + LimbAt(b, i)])

\* a - b for a >= b: limb i lends iff a limb below it is negative and every
\* limb between the two is 0
BigSub(a, b) ==
    LET t == [i \in 1..Len(a) |-> a[i] - LimbAt(b, i)]
        borrow(i) ==
            IF \E j \in 1..(i - 1) :
                 /\ t[j] < 0
                 /\ \A l \in (j + 1)..(i - 1) : t[l] = 0
            THEN 1 ELSE 0
    IN  BigStrip([i \in 1..Len(a) |-> (t[i] - borrow(i) + Limb) % Limb])

\* one round of carries: every limb keeps its remainder and takes the
\* quotient of the limb below
BigCarry(v) ==
    [k \in DOMAIN v |->
        (v[k] % Limb) + (IF k > 1 THEN v[k - 1] \div Limb ELSE 0)]

\* the columns of the long multiplication, then the carries; with fewer
\* than 700 limbs a column is below 2^31 and three rounds leave every limb
\* at Limb or less
BigMul(a, b) ==
    IF a = <<>> \/ b = <<>> THEN <<>>
    ELSE LET column ==
                 [k \in 1..(Len(a) + Len(b)) |->
                    Sum([i \in {i \in 1..Len(a) : k + 1 - i \in 1..Len(b)} |->
                           a[i] * b[k + 1 - i]])]
         IN  BigResolve(BigCarry(BigCarry(BigCarry(column))))

\* -1, 0, 1 as a < b, a = b, a > b
BigCmp(a, b) ==
    IF Len(a) < Len(b) THEN -1
    ELSE IF Len(a) > Len(b) THEN 1
    ELSE LET differ == {i \in DOMAIN a : a[i] # b[i]}
         IN  IF differ = {} THEN 0
             ELSE IF a[Max(differ)] < b[Max(differ)] THEN -1
             ELSE 1

\* a * Limb^k
BigShift(a, k) == IF a = <<>> THEN <<>> ELSE [i \in 1..k |-> 0] \o a

---------------------------------------------------------------------------
(* Numbers: sg * n / Limb^e with sg in {-1, 0, 1}, n a Big natural.        *)
(* Canonical form: zero is [sg 0, n <<>>, e 0]; otherwise e = 0 or the     *)
(* lowest limb of n is not 0.  Equal numbers are equal records.            *)

NumNorm(sg, n, e) ==
    IF n = <<>> \/ sg = 0 THEN [sg |-> 0, n |-> <<>>, e |-> 0]
    ELSE LET zeros == Min({i \in DOMAIN n : n[i] # 0}) - 1
             cut == IF zeros < e THEN zeros ELSE e
         IN  [sg |-> sg, n |-> SubSeq(n, cut + 1, Len(n)), e |-> e - cut]

NumOfInt(i) ==
    IF i = 0 THEN [sg |-> 0, n |-> <<>>, e |-> 0]
    ELSE IF i > 0 THEN [sg |-> 1, n |-> BigOfNat(i), e |-> 0]
    ELSE [sg |-> -1, n |-> BigOfNat(-i), e |-> 0]

NumZero == NumOfInt(0)
NumOne == NumOfInt(1)

NumNeg(x) == [sg |-> -x.sg, n |-> x.n, e |-> x.e]

NumAdd(x, y) ==
    IF x.sg = 0 THEN y
    ELSE IF y.sg = 0 THEN x
    ELSE LET e  == IF x.e > y.e THEN x.e ELSE y.e
             nx == BigShift(x.n, e - x.e)
             ny == BigShift(y.n, e - y.e)
             c  == BigCmp(nx, ny)
         IN  IF x.sg = y.sg THEN NumNorm(x.sg, BigAdd(nx, ny), e)
             ELSE IF c = 0 THEN NumNorm(0, <<>>, 0)
             ELSE IF c > 0 THEN NumNorm(x.sg, BigSub(nx, ny), e)
             ELSE NumNorm(y.sg, BigSub(ny, nx), e)

NumSub(x, y) == NumAdd(x, NumNeg(y))

NumMul(x, y) ==
    IF x.sg = 0 \/ y.sg = 0 THEN NumNorm(0, <<>>, 0)
    ELSE NumNorm(x.sg * y.sg, BigMul(x.n, y.n), x.e + y.e)

NumLt(x, y) == NumSub(x, y).sg < 0
NumLeq(x, y) == NumSub(x, y).sg <= 0
NumGt(x, y) == NumLt(y, x)
NumGeq(x, y) == NumLeq(y, x)

\* 1 / s^k, for s a divisor of NumBase: up to six factors at once
RECURSIVE NumInvPow(_, _)
NumInvPow(s, k) ==
    IF k <= 6
    THEN LET e == (k + 2) \div 3
         IN  NumNorm(1, BigOfNat(((NumBase \div s) ^ k) * (NumBase ^ (3 * e - k))),
                     e)
    ELSE NumMul(NumInvPow(s, 6), NumInvPow(s, k - 6))

NumHalf == NumInvPow(2, 1)

NumIsInteger(x) == x.e = 0

---------------------------------------------------------------------------
(* Strings are sequences of one-character strings.  A JavaScript number    *)
(* that parseInt or the template literals handle is an integer or NaN.     *)
(* TLC cannot compare an integer with a value of another kind, so NaN is   *)
(* encoded as an integer no string of the model parses to; the operators   *)
(* below give it NaN's behaviour (every comparison false, absorbing).      *)

NaN == -(2 ^ 30)

DigitChars == <<"0", "1", "2", "3", "4", "5", "6", "7", "8", "9">>

IsDigit(c) == \E i \in 1..10 : DigitChars[i] = c

DigitValue(c) == (CHOOSE i \in 1..10 : DigitChars[i] = c) - 1

IsWhitespace(c) == c = " "

\* Number::toString of an integer or NaN, as `${count}` and string + number use it
RECURSIVE NatToString(_)
NatToString(n) ==
    IF n < 10 THEN <<DigitChars[n + 1]>>
    ELSE NatToString(n \div 10) \o <<DigitChars[(n % 10) + 1]>>

NumberToString(n) ==
    IF n = NaN THEN <<"N", "a", "N">>
    ELSE IF n < 0 THEN <<"-">> \o NatToString(-n)
    ELSE NatToString(n)

\* String.prototype.trim
RECURSIVE TrimLeft(_)
TrimLeft(s) ==
    IF s # <<>> /\ IsWhitespace(Head(s)) THEN TrimLeft(Tail(s)) ELSE s

RECURSIVE TrimRight(_)
TrimRight(s) ==
    IF s # <<>> /\ IsWhitespace(s[Len(s)])
    THEN TrimRight(SubSeq(s, 1, Len(s) - 1)) ELSE s

Trim(s) == TrimRight(TrimLeft(s))

\* parseInt(s) without a radix, on strings that hold no 'x': leading white
\* space is skipped, an optional sign is read, then the longest run of
\* decimal digits; NaN when there is none.
RECURSIVE ParseDigits(_, _, _)
ParseDigits(s, acc, any) ==
    IF s # <<>> /\ IsDigit(Head(s))
    THEN ParseDigits(Tail(s), acc * 10 + DigitValue(Head(s)), TRUE)
    ELSE IF any THEN acc ELSE NaN

ParseInt(s) ==
    LET t == TrimLeft(s)
    IN  IF t # <<>> /\ Head(t) = "-"
        THEN LET v == ParseDigits(Tail(t), 0, FALSE)
             IN  IF v = NaN THEN NaN ELSE -v
        ELSE IF t # <<>> /\ Head(t) = "+" THEN ParseDigits(Tail(t), 0, FALSE)
        ELSE ParseDigits(t, 0, FALSE)

\* the relational operators and arithmetic of JavaScript on integers and NaN
JsGt(a, b) == a # NaN /\ b # NaN /\ a > b
JsGeq(a, b) == a # NaN /\ b # NaN /\ a >= b
JsLeq(a, b) == a # NaN /\ b # NaN /\ a <= b
JsTimes(a, b) == IF a = NaN \/ b = NaN THEN NaN ELSE a * b
JsAbs(a) == IF a = NaN THEN NaN ELSE IF a < 0 THEN -a ELSE a

\* name.split(new RegExp("[dDwW\+\-]"))
IsDelimiter(c) == c \in {"d", "D", "w", "W", "+", "-"}

RECURSIVE SplitFrom(_, _)
SplitFrom(s, cur) ==
    IF s = <<>> THEN <<cur>>
    ELSE IF IsDelimiter(Head(s)) THEN <<cur>> \o SplitFrom(Tail(s), <<>>)
    ELSE SplitFrom(Tail(s), Append(cur, Head(s)))

Split(s) == SplitFrom(s, <<>>)

Includes(s, c) == \E i \in 1..Len(s) : s[i] = c

---------------------------------------------------------------------------
(* class Dice                                                              *)

\* what a throwing call yields: require(bool, message) throws the message
Thrown(message) == [kind |-> "thrown", message |-> message]

\* Dice.prettyName(count, sides, modifier) with the sign always written "+"
DicePrettyName_NoSign(count, sides, modifier) ==
    NumberToString(count) \o <<"d">> \o NumberToString(sides)
        \o (IF modifier # 0
            THEN <<"+">> \o NumberToString(JsAbs(modifier))
            ELSE <<>>)

DicePrettyName(count, sides, modifier) ==
    NumberToString(count) \o <<"d">> \o NumberToString(sides)
        \o (IF modifier # 0
            THEN (IF JsGt(modifier, 0) THEN <<"+">> ELSE <<"-">>)
                     \o NumberToString(JsAbs(modifier))
            ELSE <<>>)

\* the bounds the constructor requires
MinDiceSides == 2
MaxDiceCount == 16
MaxDiceSides == 100

\* new Dice(name, count, sides, modifier)
NewDice(name, count, sides, modifier) ==
    IF ~JsGt(count, 0) THEN Thrown("Dice count must be positive")
    ELSE IF ~JsGeq(sides, MinDiceSides)
         THEN Thrown("Number of sides of a dice must be at least 2")
    ELSE IF ~JsLeq(count, MaxDiceCount)
         THEN Thrown("Dice count may not exceed 32")
    ELSE IF ~JsLeq(sides, MaxDiceSides)
         THEN Thrown("Number of sides may not exceed 100")
    ELSE [kind |-> "dice", name |-> name, count |-> count, sides |-> sides,
          modifier |-> modifier]

\* Dice.parse(name)
DiceParse(name) ==
    LET tokens == Split(name)
    IN  IF ~(Len(tokens) >= 2) THEN Thrown("Invalid dice description")
        ELSE LET diceCountString == Trim(tokens[1])
                 count == IF Len(diceCountString) = 0 THEN 1
                          ELSE ParseInt(diceCountString)
                 sides == ParseInt(Trim(tokens[2]))
                 isNegative == Includes(name, "-")
                 parsedModifier == IF Len(tokens) >= 3
                                   THEN ParseInt(Trim(tokens[3])) ELSE 0
                 modifier == IF isNegative THEN JsTimes(parsedModifier, -1)
                             ELSE parsedModifier
                 prettyName == DicePrettyName(count, sides, modifier)
             IN  NewDice(prettyName, count, sides, modifier)

\* dice.withCount(count, sides, modifier)
WithCount(dice, count, sides, modifier) ==
    NewDice(DicePrettyName(count, sides, modifier), count, sides, modifier)

\* no Dice yet: the call has not been made
NoDice == [kind |-> "none"]

IsDice(d) == d.kind = "dice"

---------------------------------------------------------------------------
(* simulateSumToInfinity's defaults                                        *)

\* threshold = 0.0001, held as its inverse
ThresholdInverse == 10000
DefaultMinIterations == 20
DefaultMaxIterations == 5000

---------------------------------------------------------------------------
(* class DiceCalculator.  The two static caches are the state st = [eq,    *)
(* le]: each maps a dice name to an object mapping k to a number.  Every   *)
(* method that may read or fill a cache takes the state and yields         *)
(* [st |-> the state after the call, v |-> the value returned].  What the  *)
(* code does with the value of a call is an operator applied to the call's *)
(* [st, v].                                                                *)

EmptyCaches == [eq |-> <<>>, le |-> <<>>]

\* x + (the value of a call), x * (the value of a call), 1 - (the value)
Plus(x, r) == [st |-> r.st, v |-> NumAdd(x, r.v)]
Times(x, r) == [st |-> r.st, v |-> NumMul(x, r.v)]
OneMinus(r) == [st |-> r.st, v |-> NumSub(NumOne, r.v)]

\* the remainder operator %, whose result has the sign of the dividend
JsRem(a, b) == IF a >= 0 THEN a % b ELSE -((-a) % b)

\* getProbabilityEqualCache(): the state once the name has its object
GetProbabilityEqualCache(st, d) ==
    IF d.name \in DOMAIN st.eq THEN st
    ELSE [st EXCEPT !.eq = (d.name :> <<>>) @@ st.eq]

\* getProbabilityLessOrEqualCache()
GetProbabilityLessOrEqualCache(st, d) ==
    IF d.name \in DOMAIN st.le THEN st
    ELSE [st EXCEPT !.le = (d.name :> <<>>) @@ st.le]

\* a store that replaces the dice's object instead of adding the key to it
PutEqual_Replacing(result, d, k) ==
    [st |-> [result.st EXCEPT !.eq[d.name] = (k :> result.v)],
     v |-> result.v]

\* cache[k] = result; return result;
PutEqual(result, d, k) ==
    [st |-> [result.st EXCEPT !.eq[d.name] = (k :> result.v) @@ @],
     v |-> result.v]

\* cache[k] = value; return value;
PutLessOrEqual(value, d, k) ==
    [st |-> [value.st EXCEPT !.le[d.name] = (k :> value.v) @@ @],
     v |-> value.v]

\* getExplosionCountForResult(k) = Math.floor(k / sides)
GetExplosionCountForResult(d, k) == k \div d.sides

RECURSIVE ProbabilityForResultEqualTo(_, _, _)
RECURSIVE CalculateProbabilityForResultEqualTo(_, _, _)

\* singleDiceCalculator.probabilityForResultEqualTo(i), whose call is
\* single, * simplerDiceCalculator.probabilityForResultEqualTo(k - i)
ConvolutionTerm(single, simplerDice, k) ==
    Times(single.v, ProbabilityForResultEqualTo(single.st, simplerDice, k))

\* result += term; i++, and the loop's condition
ConvolutionAdd(s, kWithModifier, term) ==
    [i |-> s.i + 1, again |-> s.i + 1 < kWithModifier, st |-> term.st,
     v |-> NumAdd(s.v, term.v)]

\* one pass of the for loop of calculateProbabilityForResultEqualTo; s
\* holds the loop index i, the running result v, the caches st, and in
\* s.again whether the loop's condition lets another pass follow
ConvolutionPass(singleDice, simplerDice, kWithModifier, s) ==
    ConvolutionAdd(s, kWithModifier,
        ConvolutionTerm(ProbabilityForResultEqualTo(s.st, singleDice, s.i),
                        simplerDice, kWithModifier - s.i))

\* the for loop from s on: its passes in order until s.again is false, of
\* which there are n >= 1 at most.  The first half of the passes runs, and
\* from what they leave the second half.
RECURSIVE ConvolutionLoop(_, _, _, _, _)
ConvolutionLoop(singleDice, simplerDice, kWithModifier, n, s) ==
    IF ~s.again THEN s
    ELSE IF n = 1
    THEN ConvolutionPass(singleDice, simplerDice, kWithModifier, s)
    ELSE LET half == ConvolutionLoop(singleDice, simplerDice, kWithModifier,
                                     n \div 2, s)
         IN  IF half.again
             THEN ConvolutionLoop(singleDice, simplerDice, kWithModifier,
                                  n - n \div 2, half)
             ELSE half

\* yields the loop's variables where the code has a loop: their st and v
\* are the call's
CalculateProbabilityForResultEqualTo(st, d, k) ==
    LET sides == d.sides
        count == d.count
        modifier == d.modifier
        kWithModifier == k
        kWithoutModifier == k - modifier
    IN  IF (count = 1 /\ JsRem(kWithoutModifier, sides) = 0)
           \/ kWithoutModifier < 0
        THEN [st |-> st, v |-> NumZero]
        ELSE IF count = 1
        THEN [st |-> st,
              v |-> NumInvPow(sides,
                        GetExplosionCountForResult(d, kWithoutModifier) + 1)]
        ELSE ConvolutionLoop(WithCount(d, 1, sides, modifier),
                             WithCount(d, count - 1, sides, 0),
                             kWithModifier,
                             IF kWithModifier > 1 THEN kWithModifier ELSE 1,
                             [i |-> 1, again |-> 1 < kWithModifier,
                              st |-> st, v |-> NumZero])

ProbabilityForResultEqualTo(st, d, k) ==
    LET st1 == GetProbabilityEqualCache(st, d)
    IN  IF k \in DOMAIN st1.eq[d.name]
        THEN [st |-> st1, v |-> st1.eq[d.name][k]]
        ELSE PutEqual(CalculateProbabilityForResultEqualTo(st1, d, k), d, k)

\* below + this.probabilityForResultEqualTo(k), where the call
\* this.probabilityForResultLessOrEqualTo(k - 1) is below
PlusEqualTo(below, d, k) ==
    Plus(below.v, ProbabilityForResultEqualTo(below.st, d, k))

\* a less-or-equal that stores P(X = k) without adding P(X <= k - 1)
RECURSIVE ProbabilityForResultLessOrEqualTo_NoSum(_, _, _)
ProbabilityForResultLessOrEqualTo_NoSum(st, d, k) ==
    LET st1 == GetProbabilityLessOrEqualCache(st, d)
    IN  IF k \in DOMAIN st1.le[d.name]
        THEN [st |-> st1, v |-> st1.le[d.name][k]]
        ELSE IF k > 0 + d.modifier
        THEN PutLessOrEqual(
                 ProbabilityForResultEqualTo(
                     ProbabilityForResultLessOrEqualTo_NoSum(st1, d, k - 1).st,
                     d, k),
                 d, k)
        ELSE PutLessOrEqual([st |-> st1, v |-> NumZero], d, k)

RECURSIVE ProbabilityForResultLessOrEqualTo(_, _, _)
ProbabilityForResultLessOrEqualTo(st, d, k) ==
    LET st1 == GetProbabilityLessOrEqualCache(st, d)
    IN  IF k \in DOMAIN st1.le[d.name]
        THEN [st |-> st1, v |-> st1.le[d.name][k]]
        ELSE IF k > 0 + d.modifier
        THEN PutLessOrEqual(
                 PlusEqualTo(ProbabilityForResultLessOrEqualTo(st1, d, k - 1),
                             d, k),
                 d, k)
        ELSE PutLessOrEqual([st |-> st1, v |-> NumZero], d, k)

\* a less-than that counts the result k itself
ProbabilityForResultLessThan_Inclusive(st, d, k) ==
    ProbabilityForResultLessOrEqualTo(st, d, k)

ProbabilityForResultLessThan(st, d, k) ==
    ProbabilityForResultLessOrEqualTo(st, d, k - 1)

ProbabilityForResultGreaterThan(st, d, k) ==
    OneMinus(ProbabilityForResultLessOrEqualTo(st, d, k))

\* a greater-or-equal that leaves out the result k itself
ProbabilityForResultGreaterOrEqualTo_Strict(st, d, k) ==
    ProbabilityForResultGreaterThan(st, d, k)

ProbabilityForResultGreaterOrEqualTo(st, d, k) ==
    OneMinus(ProbabilityForResultLessThan(st, d, k))

\* result[k] = (the call's value); result is held as a sequence whose
\* element k+1 is result[k]
ResultWith(result, r) == [st |-> r.st, v |-> Append(result, r.v)]

\* one pass of the loop of calculateProbabilityMap(len), for the next key
CalculateProbabilityMap(st, d, result) ==
    ResultWith(result,
               ProbabilityForResultGreaterOrEqualTo(st, d, Len(result)))

\* calculateProbabilityMap's default len
DefaultLen == 25

---------------------------------------------------------------------------
(* simulateSumToInfinity(sumFunction, options), followed pass by pass of   *)
(* its loop.  The three arrow functions the calculator passes are told     *)
(* apart by f.kind.  A call is the record of the function's parameters and *)
(* local variables; again tells whether the loop's body runs (once more).  *)

\* this.probabilityForResultEqualTo(i), whose call is equal, *
\* otherCalculator.probabilityForResultLessThan(i)
WinTerm(equal, otherDice, i) ==
    Times(equal.v, ProbabilityForResultLessThan(equal.st, otherDice, i))

SumFunction(f, st, i) ==
    IF f.kind = "expectedValue"
    THEN Times(NumOfInt(i), ProbabilityForResultEqualTo(st, f.dice, i))
    ELSE IF f.kind = "variance"
    THEN LET diff == NumSub(f.exp, NumOfInt(i))
         IN  Times(NumMul(diff, diff),
                   ProbabilityForResultEqualTo(st, f.dice, i))
    ELSE WinTerm(ProbabilityForResultEqualTo(st, f.dice, i), f.other, i)

\* a threshold of one hundredth instead of 0.0001
AboveThreshold_Hundredth(x) == NumGt(NumMul(x, NumOfInt(10 * 10)), NumOne)

\* x > threshold, with threshold = 1 / ThresholdInverse
AboveThreshold(x) == NumGt(NumMul(x, NumOfInt(ThresholdInverse)), NumOne)

\* no call of simulateSumToInfinity is running
NoSum == [called |-> FALSE]

\* let nextAddend = sumFunction(i + 1), whose call is second: the local
\* variables at the loop's start
SumLocals(s, second) ==
    [st |-> second.st, v |-> [s EXCEPT !.nextAddend = second.v]]

\* let newValue = sumFunction(i), whose call is first; let addend =
\* newValue; and the call of sumFunction(i + 1)
SumSecond(s, first) ==
    SumLocals([s EXCEPT !.newValue = first.v, !.addend = first.v],
              SumFunction(s.f, first.st, s.i + 1))

\* the statements before the loop
SimulateSumToInfinity(st, f, minIterations, maxIterations, startIndex) ==
    SumSecond([called |-> TRUE, f |-> f, minIterations |-> minIterations,
               maxIterations |-> maxIterations, i |-> startIndex,
               oldValue |-> NumZero, newValue |-> NumZero,
               addend |-> NumZero, nextAddend |-> NumZero, again |-> TRUE],
              SumFunction(f, st, startIndex))

\* the loop's body after i++ and the call of sumFunction(i + 1), which is
\* next, and the loop's condition
SumBody(s, next) ==
    [st |-> next.st,
     v |-> [s EXCEPT
              !.i = s.i + 1,
              !.oldValue = s.newValue,
              !.addend = s.nextAddend,
              !.nextAddend = next.v,
              !.newValue = NumAdd(s.newValue, s.nextAddend),
              !.again = \/ s.i + 1 < s.minIterations
                        \/ /\ s.i + 1 < s.maxIterations
                           /\ \/ AboveThreshold(s.nextAddend)
                              \/ AboveThreshold(next.v)]]

\* one pass of the do-while loop
SumLoop(st, s) == SumBody(s, SumFunction(s.f, st, s.i + 2))

\* calculateExpectedValue(): the dice whose sum it runs, which for several
\* dices is the single dice without modifier, and what it makes of the sum
ExpectedValueDice(d) ==
    IF d.count = 1 THEN d ELSE WithCount(d, 1, d.sides, 0)

CalculateExpectedValue(d, sumValue) ==
    IF d.count = 1 THEN sumValue
    ELSE NumAdd(NumMul(NumOfInt(d.count), sumValue), NumOfInt(d.modifier))

\* calculateVariance(exp): the dice whose sum it runs; exp goes with it
VarianceDice(d) ==
    IF d.count = 1 THEN d ELSE WithCount(d, 1, d.sides, d.modifier)

\* calculateMedian's loop body at index i once both calls are made:
\* whether it returned, and what
MedianReturn(le, ge, i) ==
    IF NumGeq(ge.v, NumHalf)
    THEN [st |-> ge.st, returned |-> TRUE, v |-> NumOfInt(i)]
    ELSE IF NumGt(le.v, NumHalf)
    THEN [st |-> ge.st, returned |-> TRUE,
          v |-> NumSub(NumOfInt(i), NumHalf)]
    ELSE [st |-> ge.st, returned |-> FALSE, v |-> NumZero]

\* the loop body once this.probabilityForResultLessOrEqualTo(i), le, is
\* called: && calls this.probabilityForResultGreaterOrEqualTo(i) only if
\* its left side holds
MedianCondition(le, d, i) ==
    IF NumGeq(le.v, NumHalf)
    THEN MedianReturn(le,
             ProbabilityForResultGreaterOrEqualTo(le.st, d, i), i)
    ELSE [st |-> le.st, returned |-> FALSE, v |-> NumZero]

\* one pass of calculateMedian's loop body at index i: [st, returned, v]
MedianBody(st, d, i) ==
    MedianCondition(ProbabilityForResultLessOrEqualTo(st, d, i), d, i)

---------------------------------------------------------------------------
(* State.                                                                  *)

VARIABLES
    descriptor,     \* the dice descriptor handed to Dice.parse
    source,         \* where the descriptor comes from: typed, or the
                    \* canonical name of a (count, sides, modifier) triple
    dice,           \* what Dice.parse(descriptor) yielded
    probabilityEqualCache,          \* DiceCalculator.probabilityEqualCache
    probabilityLessOrEqualCache,    \* DiceCalculator.probabilityLessOrEqualCache
    history,        \* the probability queries made so far, oldest first
    request,        \* calculateRequest: the descriptors to compare
    dices,          \* calculateRequest: the parsed dices
    pc,             \* where calculateRequest stands
    cur,            \* the index of the dice whose calculate() is running
    frame,          \* calculate()'s values so far
    sum,            \* the running call of simulateSumToInfinity
    results         \* the DiceResult objects produced so far

vars == <<descriptor, source, dice, probabilityEqualCache,
          probabilityLessOrEqualCache, history, request, dices, pc, cur,
          frame, sum, results>>

parseVars == <<descriptor, source, dice>>
cacheVars == <<probabilityEqualCache, probabilityLessOrEqualCache>>
calcVars == <<request, dices, pc, cur, frame, sum, results>>

Caches == [eq |-> probabilityEqualCache, le |-> probabilityLessOrEqualCache]

SetCaches(st) ==
    /\ probabilityEqualCache' = st.eq
    /\ probabilityLessOrEqualCache' = st.le

\* the call r leaves the caches and the sum's local variables
SetSum(r) == sum' = r.v /\ SetCaches(r.st)

NoFrame == [expValue |-> NumZero, variance |-> NumZero, i |-> 0,
            median |-> NumZero, pFail |-> NumZero, pGreaterThan |-> <<>>,
            pToWinAgainstOthers |-> <<>>]

\* a descriptor that was typed in: it is no triple's name
Typed == [kind |-> "typed", count |-> 0, sides |-> 0, modifier |-> 0,
          named |-> TRUE]

ParseIdle == descriptor = <<>> /\ source = Typed /\ dice = NoDice
CacheIdle == probabilityEqualCache = <<>> /\ probabilityLessOrEqualCache = <<>>
CalcIdle ==
    /\ request = <<>> /\ dices = <<>> /\ pc = "idle" /\ cur = 0
    /\ frame = NoFrame /\ sum = NoSum /\ results = <<>>

\* strings of the model, written as sequences of characters
RECURSIVE SeqsUpTo(_, _)
SeqsUpTo(S, n) ==
    IF n = 0 THEN {<<>>}
    ELSE LET shorter == SeqsUpTo(S, n - 1)
         IN  shorter \cup {Append(s, c) : s \in shorter, c \in S}

---------------------------------------------------------------------------
(* Dice.parse and Dice.prettyName as a state machine: a descriptor is      *)
(* either typed (any string over Alphabet) or the canonical name of a      *)
(* triple the constructor accepts.                                         *)

MaxDescriptorLen == 4
MaxModifier == 12

Alphabet == {"0", "1", "7", "d", "+", "-", " ", "a"}

TypedDescriptors == SeqsUpTo(Alphabet, MaxDescriptorLen)

ParseInit ==
    /\ dice = NoDice
    /\ \/ source = Typed /\ descriptor \in TypedDescriptors
       \/ /\ descriptor = <<>>
          /\ \E c \in 1..MaxDiceCount, s \in MinDiceSides..MaxDiceSides,
                m \in -MaxModifier..MaxModifier :
                source = [kind |-> "triple", count |-> c, sides |-> s,
                          modifier |-> m, named |-> FALSE]
    /\ history = <<>>
    /\ CacheIdle
    /\ CalcIdle

\* descriptor = Dice.prettyName(count, sides, modifier)
PrettyName ==
    /\ source.kind = "triple" /\ ~source.named
    /\ descriptor' = DicePrettyName(source.count, source.sides, source.modifier)
    /\ source' = [source EXCEPT !.named = TRUE]
    /\ UNCHANGED <<dice, cacheVars, history, calcVars>>

\* dice = Dice.parse(descriptor)
Parse ==
    /\ dice = NoDice
    /\ source.named
    /\ dice' = DiceParse(descriptor)
    /\ UNCHANGED <<descriptor, source, cacheVars, history, calcVars>>

ParseNext == PrettyName \/ Parse

ParseSpec == ParseInit /\ [][ParseNext]_vars

---------------------------------------------------------------------------
(* The probability queries.  Any number of DiceCalculator instances, each  *)
(* made for a freshly parsed Dice, call probabilityForResultEqualTo and    *)
(* probabilityForResultLessOrEqualTo; the static caches are all they       *)
(* share.  Several descriptors parse to a Dice of the same name.           *)

MaxQueries == 2
MaxK == 5
MaxBelow == 1

QueryDescriptors ==
    { <<"d", "2">>, <<"1", "d", "2">>, <<"2", "W", "2">>,
      <<"2", "d", "2", "-", "1">> }

QueryKeys == (-MaxBelow)..MaxK

Init ==
    /\ probabilityEqualCache = <<>>
    /\ probabilityLessOrEqualCache = <<>>
    /\ history = <<>>
    /\ ParseIdle
    /\ CalcIdle

\* the query's call r leaves the caches, and the query is noted with the
\* value it returned
Answer(method, desc, name, k, r) ==
    /\ SetCaches(r.st)
    /\ history' = Append(history,
           [method |-> method, descriptor |-> desc, name |-> name, k |-> k,
            v |-> r.v])

\* new DiceCalculator(Dice.parse(desc)).probabilityForResultEqualTo(k)
QueryEqualTo(desc, k) ==
    /\ Len(history) < MaxQueries
    /\ Answer("equal", desc, DiceParse(desc).name, k,
              ProbabilityForResultEqualTo(Caches, DiceParse(desc), k))
    /\ UNCHANGED <<parseVars, calcVars>>

\* new DiceCalculator(Dice.parse(desc)).probabilityForResultLessOrEqualTo(k)
QueryLessOrEqualTo(desc, k) ==
    /\ Len(history) < MaxQueries
    /\ Answer("lessOrEqual", desc, DiceParse(desc).name, k,
              ProbabilityForResultLessOrEqualTo(Caches, DiceParse(desc), k))
    /\ UNCHANGED <<parseVars, calcVars>>

Next ==
    \E desc \in QueryDescriptors, k \in QueryKeys :
        QueryEqualTo(desc, k) \/ QueryLessOrEqualTo(desc, k)

Spec == Init /\ [][Next]_vars

\* what a calculator computes for the dice of that name when both caches
\* are empty
FreshEqual(name, k) ==
    ProbabilityForResultEqualTo(EmptyCaches, DiceParse(name), k).v

FreshLessOrEqual(name, k) ==
    ProbabilityForResultLessOrEqualTo(EmptyCaches, DiceParse(name), k).v

CachesAgreeWithFresh ==
    /\ \A name \in DOMAIN probabilityEqualCache :
         \A k \in DOMAIN probabilityEqualCache[name] :
           probabilityEqualCache[name][k] = FreshEqual(name, k)
    /\ \A name \in DOMAIN probabilityLessOrEqualCache :
         \A k \in DOMAIN probabilityLessOrEqualCache[name] :
           probabilityLessOrEqualCache[name][k] = FreshLessOrEqual(name, k)

\* every entry of the two caches is still there, unchanged, after the step
CacheEntriesKept ==
    /\ \A name \in DOMAIN probabilityEqualCache :
         /\ name \in DOMAIN probabilityEqualCache'
         /\ \A k \in DOMAIN probabilityEqualCache[name] :
              /\ k \in DOMAIN probabilityEqualCache'[name]
              /\ probabilityEqualCache'[name][k] = probabilityEqualCache[name][k]
    /\ \A name \in DOMAIN probabilityLessOrEqualCache :
         /\ name \in DOMAIN probabilityLessOrEqualCache'
         /\ \A k \in DOMAIN probabilityLessOrEqualCache[name] :
              /\ k \in DOMAIN probabilityLessOrEqualCache'[name]
              /\ probabilityLessOrEqualCache'[name][k]
                    = probabilityLessOrEqualCache[name][k]

\* the query just made returned the entry stored under (name, k), if there
\* was one, and the entry that is stored now
QueryServedFromCache ==
    LET q == history'[Len(history')]
        before == IF q.method = "equal" THEN probabilityEqualCache
                  ELSE probabilityLessOrEqualCache
        after == IF q.method = "equal" THEN probabilityEqualCache'
                 ELSE probabilityLessOrEqualCache'
    IN  /\ q.name \in DOMAIN after /\ q.k \in DOMAIN after[q.name]
        /\ after[q.name][q.k] = q.v
        /\ (q.name \in DOMAIN before /\ q.k \in DOMAIN before[q.name])
              => before[q.name][q.k] = q.v

\* C6: an entry stored in a cache under (dice name, k) is never overwritten
\* or removed, equals what a fresh computation for a dice of that name
\* yields, and is what any calculator whose dice has that name gets back.
C6_CacheEntriesAreStableAndFresh ==
    /\ []CachesAgreeWithFresh
    /\ [][CacheEntriesKept /\ QueryServedFromCache]_vars

\* a second calculator, made from another descriptor of the same name, was
\* answered by the entry the first one stored
C6_Witness ==
    /\ Len(history) = 2
    /\ history[1].descriptor # history[2].descriptor
    /\ history[1].name = history[2].name
    /\ history[1].method = history[2].method
    /\ history[1].k = history[2].k
    /\ history[1].v.sg = 1
    /\ history[2].v = history[1].v

\* C7: for every dice name and every two keys k1 < k2 of its
\* less-or-equal cache, the stored P(X <= k1) is at most the stored
\* P(X <= k2).
C7_LessOrEqualCacheIsMonotone ==
    \A name \in DOMAIN probabilityLessOrEqualCache :
      \A k1, k2 \in DOMAIN probabilityLessOrEqualCache[name] :
        k1 < k2 => NumLeq(probabilityLessOrEqualCache[name][k1],
                          probabilityLessOrEqualCache[name][k2])

\* a cache holds two entries of a dice of two, one strictly above the other
C7_Witness ==
    \E name \in DOMAIN probabilityLessOrEqualCache :
      /\ DiceParse(name).count > 1
      /\ \E k1, k2 \in DOMAIN probabilityLessOrEqualCache[name] :
           /\ k1 < k2
           /\ probabilityLessOrEqualCache[name][k1].sg = 1
           /\ NumLt(probabilityLessOrEqualCache[name][k1],
                    probabilityLessOrEqualCache[name][k2])

C5_ParsedDiceKeepsInvariants ==
    IsDice(dice) =>
        /\ dice.count \in 1..MaxDiceCount
        /\ dice.sides \in MinDiceSides..MaxDiceSides
        /\ dice.modifier # NaN

\* what does hold: count and sides are always within their bounds
ParsedDiceCountAndSidesInBounds ==
    IsDice(dice) =>
        /\ dice.count \in 1..MaxDiceCount
        /\ dice.sides \in MinDiceSides..MaxDiceSides


---------------------------------------------------------------------------
(* calculateRequest.  The request is the list of descriptors between the   *)
(* "vs" separators; every dice of it gets a DiceCalculator whose           *)
(* concurring dices are all the dices of the request, and calculate()      *)
(* runs for one dice after the other.  calculate() is followed statement   *)
(* by statement, and the loops of calculateMedian and of                   *)
(* simulateSumToInfinity pass by pass.                                     *)

MaxDicesToCompare == 10

MaxRequestDices == 2
MaxScan == 8

CalcDescriptors ==
    { <<"1", "d", "6">>, <<"2", "d", "6">>, <<"1", "d", "4">>,
      <<"2", "d", "4", "-", "3">>, <<"d", "1">> }

CalcRequests == SeqsUpTo(CalcDescriptors, MaxRequestDices) \ {<<>>}

CalcInit ==
    /\ request \in CalcRequests
    /\ dices = <<>> /\ pc = "parse" /\ cur = 0
    /\ frame = NoFrame /\ sum = NoSum /\ results = <<>>
    /\ history = <<>>
    /\ ParseIdle
    /\ CacheIdle

\* require(diceStrings.length <= 10, ...) and
\* dices = diceStrings.map(diceStr => Dice.parse(diceStr)); whatever is
\* thrown is caught and marks the input invalid
ParseDices ==
    /\ pc = "parse"
    /\ LET parsed == [j \in 1..Len(request) |-> DiceParse(request[j])]
       IN  IF Len(request) <= MaxDicesToCompare
              /\ \A j \in 1..Len(request) : IsDice(parsed[j])
           THEN dices' = parsed /\ cur' = 1 /\ pc' = "expectedValue"
           ELSE dices' = dices /\ cur' = cur /\ pc' = "invalid"
    /\ UNCHANGED <<parseVars, cacheVars, history, request, frame, sum,
                   results>>

\* the running call of simulateSumToInfinity makes one pass of its loop
SumPass ==
    /\ sum.called /\ sum.again
    /\ SetSum(SumLoop(Caches, sum))
    /\ UNCHANGED <<parseVars, history, request, dices, pc, cur, frame,
                   results>>

\* calculateExpectedValue() calls simulateSumToInfinity
CallExpectedValue ==
    /\ pc = "expectedValue" /\ ~sum.called
    /\ LET d == ExpectedValueDice(dices[cur])
       IN  SetSum(SimulateSumToInfinity(Caches,
                      [kind |-> "expectedValue", dice |-> d],
                      DefaultMinIterations, DefaultMaxIterations,
                      d.modifier))
    /\ UNCHANGED <<parseVars, history, request, dices, pc, cur, frame,
                   results>>

\* const expValue = this.calculateExpectedValue();
ReturnExpectedValue ==
    /\ pc = "expectedValue" /\ sum.called /\ ~sum.again
    /\ frame' = [NoFrame EXCEPT
                   !.expValue = CalculateExpectedValue(dices[cur],
                                                       sum.newValue)]
    /\ sum' = NoSum
    /\ pc' = "variance"
    /\ UNCHANGED <<parseVars, cacheVars, history, request, dices, cur,
                   results>>

\* calculateVariance(expValue) calls simulateSumToInfinity
CallVariance ==
    /\ pc = "variance" /\ ~sum.called
    /\ LET d == VarianceDice(dices[cur])
       IN  SetSum(SimulateSumToInfinity(Caches,
                      [kind |-> "variance", dice |-> d,
                       exp |-> frame.expValue],
                      DefaultMinIterations, DefaultMaxIterations,
                      d.modifier))
    /\ UNCHANGED <<parseVars, history, request, dices, pc, cur, frame,
                   results>>

\* const variance = this.calculateVariance(expValue); then calculateMedian
\* starts at i = 1 + modifier
ReturnVariance ==
    /\ pc = "variance" /\ sum.called /\ ~sum.again
    /\ frame' = [frame EXCEPT !.variance = sum.newValue,
                              !.i = 1 + dices[cur].modifier]
    /\ sum' = NoSum
    /\ pc' = "median"
    /\ UNCHANGED <<parseVars, cacheVars, history, request, dices, cur,
                   results>>

\* the pass b of calculateMedian's loop returns the median to calculate(),
\* or i++
MedianPass(b) ==
    /\ SetCaches(b.st)
    /\ IF b.returned
       THEN frame' = [frame EXCEPT !.median = b.v] /\ pc' = "pFail"
       ELSE frame' = [frame EXCEPT !.i = frame.i + 1] /\ pc' = pc

\* one pass of the loop of calculateMedian
StepMedian ==
    /\ pc = "median"
    /\ frame.i - dices[cur].modifier <= MaxScan
    /\ MedianPass(MedianBody(Caches, dices[cur], frame.i))
    /\ UNCHANGED <<parseVars, history, request, dices, cur, sum, results>>

\* the call r leaves the caches, and its value in calculate()'s frame
SetFrame(field, r) ==
    /\ frame' = [frame EXCEPT ![field] = r.v]
    /\ SetCaches(r.st)

\* this.probabilityForResultLessThan(4)
StepFail ==
    /\ pc = "pFail"
    /\ SetFrame("pFail", ProbabilityForResultLessThan(Caches, dices[cur], 4))
    /\ pc' = "pGreaterThan"
    /\ UNCHANGED <<parseVars, history, request, dices, cur, sum, results>>

\* one pass of the loop of this.calculateProbabilityMap()
StepProbabilityMap ==
    /\ pc = "pGreaterThan"
    /\ Len(frame.pGreaterThan) < DefaultLen
    /\ SetFrame("pGreaterThan",
                CalculateProbabilityMap(Caches, dices[cur],
                                        frame.pGreaterThan))
    /\ UNCHANGED <<parseVars, history, request, dices, pc, cur, sum,
                   results>>

\* calculateProbabilityMap() returns
ReturnProbabilityMap ==
    /\ pc = "pGreaterThan"
    /\ Len(frame.pGreaterThan) = DefaultLen
    /\ pc' = "win"
    /\ UNCHANGED <<parseVars, cacheVars, history, request, dices, cur,
                   frame, sum, results>>

\* calculateWinProbabilityMap(): probabilityToWinAgainst(dice) for the next
\* of the concurring dices calls simulateSumToInfinity
CallProbabilityToWinAgainst ==
    /\ pc = "win" /\ ~sum.called
    /\ Len(frame.pToWinAgainstOthers) < Len(dices)
    /\ LET d == dices[cur]
           otherDice == dices[Len(frame.pToWinAgainstOthers) + 1]
       IN  SetSum(SimulateSumToInfinity(Caches,
                      [kind |-> "winAgainst", dice |-> d,
                       other |-> otherDice],
                      d.sides * d.count, DefaultMaxIterations,
                      IF d.modifier < otherDice.modifier THEN d.modifier
                      ELSE otherDice.modifier))
    /\ UNCHANGED <<parseVars, history, request, dices, pc, cur, frame,
                   results>>

\* {diceName: dice.name, probability: this.probabilityToWinAgainst(dice)}
ReturnProbabilityToWinAgainst ==
    /\ pc = "win" /\ sum.called /\ ~sum.again
    /\ frame' = [frame EXCEPT !.pToWinAgainstOthers =
                   Append(@, [diceName |-> sum.f.other.name,
                              probability |-> sum.newValue])]
    /\ sum' = NoSum
    /\ UNCHANGED <<parseVars, cacheVars, history, request, dices, pc, cur,
                   results>>

\* new DiceResult(...), and the next dice of dices.map
StepResult ==
    /\ pc = "win" /\ ~sum.called
    /\ Len(frame.pToWinAgainstOthers) = Len(dices)
    /\ results' = Append(results,
           [dice |-> dices[cur],
            expectedValue |-> frame.expValue,
            median |-> frame.median,
            variance |-> frame.variance,
            standardDeviation |-> [sqrt |-> frame.variance],
            pFail |-> frame.pFail,
            pGreaterThan |-> frame.pGreaterThan,
            pToWinAgainstOthers |-> frame.pToWinAgainstOthers])
    /\ frame' = NoFrame
    /\ IF cur < Len(dices)
       THEN cur' = cur + 1 /\ pc' = "expectedValue"
       ELSE cur' = cur /\ pc' = "done"
    /\ UNCHANGED <<parseVars, cacheVars, history, request, dices, sum>>

CalcNext ==
    \/ ParseDices
    \/ SumPass
    \/ CallExpectedValue
    \/ ReturnExpectedValue
    \/ CallVariance
    \/ ReturnVariance
    \/ StepMedian
    \/ StepFail
    \/ StepProbabilityMap
    \/ ReturnProbabilityMap
    \/ CallProbabilityToWinAgainst
    \/ ReturnProbabilityToWinAgainst
    \/ StepResult

CalcSpec == CalcInit /\ [][CalcNext]_vars

---------------------------------------------------------------------------
(* Properties of the probability queries and of calculateRequest.          *)

\* |1000 * x - centre| <= tolerance
WithinThousandths(x, centre, tolerance) ==
    LET y == NumSub(NumMul(x, NumOfInt(1000)), NumOfInt(centre))
    IN  NumLeq(y, NumOfInt(tolerance)) /\ NumGeq(y, NumOfInt(-tolerance))

\* For the sum X of count exploding dice of that many sides plus modifier,
\* X > K needs one die above x = floor((K - modifier) / count), and a die
\* is above x = q * sides + r with probability (sides - r) / sides^(q+1):
\* an upper bound of the mass P(X > K), which goes to 0 as K grows.
TailBound(d, K) ==
    LET x == (K - d.modifier) \div d.count
        q == x \div d.sides
        r == x % d.sides
        b == NumMul(NumOfInt(d.count * (d.sides - r)),
                    NumInvPow(d.sides, q + 1))
    IN  IF x < 0 \/ NumGt(b, NumOne) THEN NumOne ELSE b

\* C1: the values of probabilityForResultEqualTo(k) sum to 1.  The entry
\* of the less-or-equal cache under (name, K) is the sum of
\* probabilityForResultEqualTo(k) for the dice over all k <= K; it is at
\* most 1, and the mass missing from it is at most the tail bound of the
\* dice at K.
C1_ProbabilitiesSumToOne ==
    \A name \in DOMAIN probabilityLessOrEqualCache :
      \A K \in DOMAIN probabilityLessOrEqualCache[name] :
        LET partial == probabilityLessOrEqualCache[name][K]
        IN  /\ NumLeq(partial, NumOne)
            /\ NumLeq(NumSub(NumOne, partial), TailBound(DiceParse(name), K))

\* what does hold: the sums never exceed 1, and the mass is all there for
\* the dice without a negative modifier
PartialSumsAtMostOne ==
    \A name \in DOMAIN probabilityLessOrEqualCache :
      \A K \in DOMAIN probabilityLessOrEqualCache[name] :
        LET partial == probabilityLessOrEqualCache[name][K]
            d == DiceParse(name)
        IN  /\ NumLeq(partial, NumOne)
            /\ d.modifier >= 0 =>
                 NumLeq(NumSub(NumOne, partial), TailBound(d, K))

ResultsOf(name) ==
    { results[j] : j \in { j \in 1..Len(results) : results[j].dice.name = name } }

\* C2: calculateExpectedValue() for the dice parsed from "1d6" is 4.2 and
\* for the dice parsed from "2d6" is 8.4, each within 0.001: the expected
\* values of the exploding dice.
C2_ExpectedValueOfExplodingD6 ==
    /\ \A r \in ResultsOf(<<"1", "d", "6">>) :
         WithinThousandths(r.expectedValue, 4200, 1)
    /\ \A r \in ResultsOf(<<"2", "d", "6">>) :
         WithinThousandths(r.expectedValue, 8400, 1)

\* both dice have been calculated in one request
C2_Witness ==
    /\ pc = "done"
    /\ ResultsOf(<<"1", "d", "6">>) # {}
    /\ ResultsOf(<<"2", "d", "6">>) # {}

\* C2 as stated: the expected value is 3.5 for "1d6" and 7.0 for "2d6"
C2_ExpectedValueOfPlainD6 ==
    /\ \A r \in ResultsOf(<<"1", "d", "6">>) :
         WithinThousandths(r.expectedValue, 3500, 1)
    /\ \A r \in ResultsOf(<<"2", "d", "6">>) :
         WithinThousandths(r.expectedValue, 7000, 1)

\* the chances to win that the results of the request 1d4 vs 1d4 hold
WinsOfD4AgainstD4 ==
    IF request = << <<"1", "d", "4">>, <<"1", "d", "4">> >>
    THEN { results[j].pToWinAgainstOthers[i].probability :
             j \in 1..Len(results), i \in 1..2 }
    ELSE {}

\* C3: for the request 1d4 vs 1d4, probabilityToWinAgainst of one 1d4
\* against the other is within 0.01 of 0.4.
C3_WinOfD4AgainstD4IsTwoFifths ==
    \A p \in WinsOfD4AgainstD4 : WithinThousandths(p, 400, 10)

\* both 1d4 of the request have their result
C3_Witness ==
    /\ pc = "done"
    /\ Len(results) = 2
    /\ WinsOfD4AgainstD4 # {}

\* C3 as stated: the chance is within 0.01 of 0.375
C3_WinOfD4AgainstD4IsThreeEighths ==
    \A p \in WinsOfD4AgainstD4 : WithinThousandths(p, 375, 10)

\* C8: calculateMedian() terminates for every valid dice: scanning i
\* upward from 1 + modifier it reaches an i with P(X <= i) >= 0.5.  The
\* mass above K is at most the tail bound at K, so the scan has returned
\* before it passes a K whose tail bound is at most 1/2: while it runs at
\* i, the tail bound at i - 1 is above 1/2.
C8_CalculateMedianTerminates ==
    (pc = "median" /\ frame.i > 1 + dices[cur].modifier) =>
        NumGt(TailBound(dices[cur], frame.i - 1), NumHalf)

\* C9: the variance that calculate() reports for a dice with count > 1
\* equals the variance that calculate() reports for the dice with count 1
\* and the same sides and modifier.
C9_VarianceOfSeveralIsVarianceOfSingle ==
    \A i, j \in 1..Len(results) :
      ( /\ results[i].dice.count > 1
        /\ results[j].dice.count = 1
        /\ results[j].dice.sides = results[i].dice.sides
        /\ results[j].dice.modifier = results[i].dice.modifier )
      => results[i].variance = results[j].variance

\* the medians calculateMedian() has returned, each with its dice
ReturnedMedians ==
    { [dice |-> results[j].dice, median |-> results[j].median] :
        j \in 1..Len(results) }
    \cup (IF pc \in {"pFail", "pGreaterThan", "win"}
          THEN {[dice |-> dices[cur], median |-> frame.median]}
          ELSE {})

\* C10: whenever calculateMedian() returns, it returns an integer i, the
\* smallest i > modifier with P(X <= i) >= 0.5; the i - 0.5 branch is never
\* taken.
C10_MedianIsSmallestIntegerReachingHalf ==
    \A m \in ReturnedMedians :
      LET le == probabilityLessOrEqualCache[m.dice.name]
      IN  /\ NumIsInteger(m.median)
          /\ \E i \in (m.dice.modifier + 1)..(m.dice.modifier + MaxScan) :
               /\ m.median = NumOfInt(i)
               /\ NumGeq(le[i], NumHalf)
               /\ \A k \in (m.dice.modifier + 1)..(i - 1) :
                    NumLt(le[k], NumHalf)

\* the scan for two dice returned at an i where P(X <= i) is above 0.5
C10_Witness ==
    \E m \in ReturnedMedians :
      /\ m.dice.count > 1
      /\ m.median = NumOfInt(7)
      /\ NumGt(probabilityLessOrEqualCache[m.dice.name][7], NumHalf)

====
